---- MODULE Spec2Model ----
(***************************************************************************)
(* Model of src/src/App.tsx: the search-as-you-type widget.                *)
(*                                                                         *)
(* Strings are sequences of one-character strings.  A CSS length is a      *)
(* record [n, unit]: "100%" is [n |-> 100, unit |-> "%"], "0px" is         *)
(* [n |-> 0, unit |-> "px"].                                               *)
(*                                                                         *)
(* React is modelled as it schedules this tree: a state write marks the    *)
(* tree for a render; Render commits the five state fields to the closures *)
(* and the DOM (rendered) and queues the effects whose dependencies        *)
(* changed; the queued effects run children first (FakeSpan, then          *)
(* FeaturefulSearchInput, then the two effects of ServiceSearch), each     *)
(* reading the values of the render that queued it.  Input events, timer   *)
(* callbacks and the fetch's resolution are separate tasks and run between *)
(* commits.  Time is in milliseconds and advances by Step.                 *)
(*                                                                         *)
(* _.throttle(f, wait) is lodash's debounce(f, wait, {leading: true,       *)
(* trailing: true, maxWait: wait}); each gate keeps lodash's lastArgs,     *)
(* timerId, lastCallTime and lastInvokeTime, the last two as the time      *)
(* elapsed since, capped at wait (lodash only compares them with wait).    *)
(***************************************************************************)
EXTENDS Integers, Sequences, FiniteSets, TLC

VARIABLES
  services,                    \* useState<Service[]>([])
  filteredServices,            \* useState<Service[]>([])
  serviceSearchInputValue,     \* useState("")
  fakeSpanDomWidth,            \* useState("100%")
  suggestionInputPlaceholder,  \* useState("")
  fresh,                       \* array fields given a new array since the last render
  rendered,                    \* the values of the last render, and the DOM it produced
  effects,                     \* effects queued by the last render, not yet run
  fetchState,                  \* the request's promise chain: "idle" (not made), "inflight",
                               \* "resolved" (with any status), "rejected"
  requests,                    \* calls of fetch() made so far
  throttledSetFakeSpanDomWidth,
  throttledSetServiceSearchInputValue,
  throttledSetSuggestionInputPlaceholder,
  attempted,                   \* per gate: the argument of its latest call
  superseded,                  \* gates whose held call replaced an earlier held call
  quiet,                       \* ms since QueryText or filteredItems last changed
  typed,                       \* the characters of the first run of typing, all appended
  last                         \* the step just taken, and the gates that wrote in it

vars == <<services, filteredServices, serviceSearchInputValue, fakeSpanDomWidth,
          suggestionInputPlaceholder, fresh, rendered, effects, fetchState,
          requests, throttledSetFakeSpanDomWidth, throttledSetServiceSearchInputValue,
          throttledSetSuggestionInputPlaceholder, attempted, superseded, quiet,
          typed, last>>

\* ------------------------------------------------------------------ bounds

\* Longest text the user types.
MaxLen == 2

\* Milliseconds by which one Tick advances the clock.
Step == 60

\* Calls of fetch() after which no further call is followed.
MaxRequests == 2

\* ------------------------------------------------------- program constants

WaitFakeSpan == 120

WaitInput == 120

WaitSuggestion == 500

\* Rendered width of one character of the mirror span, in px.
CharPx == 8

Keys == {"b", " "}

Whitespace == {" "}

Catalogs ==
  { <<>>,
    << [id |-> "1", name |-> <<"a", "b">>],
       [id |-> "2", name |-> <<"B", "a">>],
       [id |-> "3", name |-> <<"a", " ", "b">>],
       [id |-> "4", name |-> <<"b", "a">>] >>,
    << [id |-> "1", name |-> <<"b", "b">>],
       [id |-> "2", name |-> <<"a", "b">>] >> }

\* Parsed bodies of responses with a non-success status: any JSON; those that
\* are non-empty lists of items are modelled.
ErrorBodies == Catalogs \ {<<>>}

Gates == {"fakeSpan", "input", "suggestion"}

Min(a, b) == IF a <= b THEN a ELSE b

Max(a, b) == IF a >= b THEN a ELSE b

\* ------------------------------------------------------------ JS strings

\* Mutant of Includes: matches at the start of the name only.
IncludesAtStart(s, q) ==
  Len(q) <= Len(s) /\ SubSeq(s, 1, Len(q)) = q

\* String.prototype.includes
Includes(s, q) ==
  \E i \in 1..(Len(s) + 1) :
    i + Len(q) - 1 <= Len(s) /\ SubSeq(s, i, i + Len(q) - 1) = q

\* String.prototype.substring(0, n)
Substring0(s, n) == SubSeq(s, 1, Min(n, Len(s)))

RECURSIVE TrimStart(_)
TrimStart(s) ==
  IF Len(s) > 0 /\ Head(s) \in Whitespace THEN TrimStart(Tail(s)) ELSE s

RECURSIVE TrimEnd(_)
TrimEnd(s) ==
  IF Len(s) > 0 /\ s[Len(s)] \in Whitespace
  THEN TrimEnd(SubSeq(s, 1, Len(s) - 1))
  ELSE s

\* String.prototype.trim
Trim(s) == TrimEnd(TrimStart(s))

Px(n) == [n |-> n, unit |-> "px"]

Percent100 == [n |-> 100, unit |-> "%"]

\* getComputedStyle(span).width of the mirror span showing text
ComputedWidth(text) == Px(Len(text) * CharPx)

\* ------------------------------------------------- the derived values

\* services.filter((s) => s.name.includes(serviceSearchInputValue))
Filter(list, q) == SelectSeq(list, LAMBDA s : Includes(s.name, q))

\* Mutant of FilterResults: the blank-query branch is missing.
FilterResultsUnguarded(list, q) == Filter(list, q)

\* The value the filter effect passes to setFilteredServices.
FilterResults(list, q) == IF Trim(q) /= <<>> THEN Filter(list, q) ELSE <<>>

\* filteredServices[0]?.name || ""
FirstSearchItemText(list) == IF Len(list) = 0 THEN <<>> ELSE list[1].name

IsInputValueSubstrinOfFirstSearchItem(q, list) ==
  q = Substring0(FirstSearchItemText(list), Len(q))

\* Mutant of NewPlaceholder: the prefix test is missing.
NewPlaceholderUntested(q, list) == FirstSearchItemText(list)

\* Mutant of NewPlaceholder: with no first item the query itself is suggested.
NewPlaceholderEchoingQuery(q, list) ==
  IF Len(list) = 0
  THEN q
  ELSE IF IsInputValueSubstrinOfFirstSearchItem(q, list)
       THEN FirstSearchItemText(list)
       ELSE <<>>

\* The value the suggestion effect passes to its gate.
NewPlaceholder(q, list) ==
  IF IsInputValueSubstrinOfFirstSearchItem(q, list)
  THEN FirstSearchItemText(list)
  ELSE <<>>

\* Mutant of ShouldInputExpand: the initial "100%" is tested instead of "0px".
ShouldInputExpandUnmeasured(width, placeholder) ==
  width = Percent100 \/ Len(placeholder) = 0

ShouldInputExpand(width, placeholder) ==
  width = Px(0) \/ Len(placeholder) = 0

\* style.width of the editable input
InputWidth(width, placeholder) ==
  IF ShouldInputExpand(width, placeholder) THEN Percent100 ELSE width

\* --------------------------------------------------------- _.throttle

NewThrottle(wait) ==
  [lastArgs |-> <<>>, timer |-> <<>>, sinceCall |-> wait, sinceInvoke |-> wait]

Wait(g) ==
  CASE g = "fakeSpan" -> WaitFakeSpan
    [] g = "input" -> WaitInput
    [] g = "suggestion" -> WaitSuggestion

\* lodash shouldInvoke: the first call, or wait since the last call, or
\* maxWait (= wait) since the last invocation.
ShouldInvoke(t, wait) == t.sinceCall >= wait \/ t.sinceInvoke >= wait

\* lodash remainingWait, with maxing
RemainingWait(t, wait) == Min(wait - t.sinceCall, wait - t.sinceInvoke)

\* Mutant of Debounced: a held call is not replaced by a later one.
DebouncedKeepingFirst(t, arg, wait) ==
  IF t.sinceCall >= wait \/ t.sinceInvoke >= wait
  THEN [t |-> [lastArgs |-> <<>>, timer |-> <<wait>>,
               sinceCall |-> 0, sinceInvoke |-> 0],
        invoked |-> TRUE]
  ELSE [t |-> [lastArgs |-> IF t.lastArgs = <<>> THEN <<arg>> ELSE t.lastArgs,
               timer |-> IF t.timer = <<>> THEN <<wait>> ELSE t.timer,
               sinceCall |-> 0, sinceInvoke |-> t.sinceInvoke],
        invoked |-> FALSE]

\* A call of the throttled function with arg: the gate after it, and whether
\* the wrapped setter was invoked (then with arg, the lastArgs just stored).
\* Invoking: leadingEdge when no timer is set, else the maxing branch that
\* restarts the timer; both set lastInvokeTime, a timer of wait, and invoke.
Debounced(t, arg, wait) ==
  IF ShouldInvoke(t, wait)
  THEN [t |-> [lastArgs |-> <<>>, timer |-> <<wait>>,
               sinceCall |-> 0, sinceInvoke |-> 0],
        invoked |-> TRUE]
  ELSE [t |-> [lastArgs |-> <<arg>>,
               timer |-> IF t.timer = <<>> THEN <<wait>> ELSE t.timer,
               sinceCall |-> 0, sinceInvoke |-> t.sinceInvoke],
        invoked |-> FALSE]

TimerDue(t) == t.timer /= <<>> /\ t.timer[1] <= 0

\* lodash timerExpired: the gate after it, and whether the setter was invoked
\* (trailingEdge with lastArgs set), then with t.lastArgs[1].
TimerExpired(t, wait) ==
  IF ShouldInvoke(t, wait)
  THEN IF t.lastArgs /= <<>>
       THEN [t |-> [t EXCEPT !.timer = <<>>, !.lastArgs = <<>>, !.sinceInvoke = 0],
             invoked |-> TRUE]
       ELSE [t |-> [t EXCEPT !.timer = <<>>], invoked |-> FALSE]
  ELSE [t |-> [t EXCEPT !.timer = <<RemainingWait(t, wait)>>], invoked |-> FALSE]

\* The gate after ms milliseconds.
Elapse(t, wait, ms) ==
  [t EXCEPT !.sinceCall = Min(@ + ms, wait),
            !.sinceInvoke = Min(@ + ms, wait),
            !.timer = IF @ = <<>> THEN <<>> ELSE <<Max(@[1] - ms, 0)>>]

\* ------------------------------------------------- records of a step

\* superseded after a call of gate g found in state t, r its outcome: a call
\* that is held replaces the call held before it, if any.
Superseding(g, t, r) ==
  IF ~r.invoked /\ t.lastArgs /= <<>>
  THEN superseded \cup {g}
  ELSE superseded \ {g}

\* The record of a step op: a call of gate g found in state t, with outcome r.
\* dropped names g when the write leaves a held call unwritten.
Called(op, g, t, r) ==
  [op |-> op,
   wrote |-> IF r.invoked THEN {g} ELSE {},
   dropped |-> IF r.invoked /\ t.lastArgs /= <<>> THEN {g} ELSE {}]

\* The record of a step op: the timer of gate g fired, with outcome r.  dropped
\* names g when the call written had replaced an earlier held call.
Fired(op, g, r) ==
  [op |-> op,
   wrote |-> IF r.invoked THEN {g} ELSE {},
   dropped |-> IF r.invoked /\ g \in superseded THEN {g} ELSE {}]

\* The record of a step op that involves no gate.
Plain(op) == [op |-> op, wrote |-> {}, dropped |-> {}]

\* The record of a step op in which a response body was parsed.
Received(op, body) == [op |-> op, wrote |-> {}, dropped |-> {}, body |-> body]

\* ------------------------------------------------------------- the state

Init ==
  /\ services = <<>>
  /\ filteredServices = <<>>
  /\ serviceSearchInputValue = <<>>
  /\ fakeSpanDomWidth = Percent100
  /\ suggestionInputPlaceholder = <<>>
  /\ fresh = {}
  /\ rendered = [mounted |-> FALSE,
                 services |-> <<>>,
                 filteredServices |-> <<>>,
                 serviceSearchInputValue |-> <<>>,
                 fakeSpanDomWidth |-> Percent100,
                 suggestionInputPlaceholder |-> <<>>,
                 inputWidth |-> Percent100]
  /\ effects = {}
  /\ fetchState = "idle"
  /\ requests = 0
  /\ throttledSetFakeSpanDomWidth = NewThrottle(WaitFakeSpan)
  /\ throttledSetServiceSearchInputValue = NewThrottle(WaitInput)
  /\ throttledSetSuggestionInputPlaceholder = NewThrottle(WaitSuggestion)
  /\ attempted = [g \in Gates |-> <<>>]
  /\ superseded = {}
  /\ quiet = WaitSuggestion
  /\ typed = [ok |-> TRUE, text |-> <<>>]
  /\ last = Plain("Init")

\* A state write is waiting for its render: a string field differs from the
\* rendered one, or an array field was given a new array (never Object.is-equal
\* to the old one: the result of filter(), a literal [], a parsed body).
NeedsRender ==
  \/ ~rendered.mounted
  \/ fresh /= {}
  \/ serviceSearchInputValue /= rendered.serviceSearchInputValue
  \/ fakeSpanDomWidth /= rendered.fakeSpanDomWidth
  \/ suggestionInputPlaceholder /= rendered.suggestionInputPlaceholder

\* Nothing of React's is outstanding: the next thing to run is an event.
Idle == rendered.mounted /\ ~NeedsRender /\ effects = {}

\* Mutant of QueuedEffects: filteredServices is missing from the suggestion
\* effect's dependencies.
QueuedEffectsSuggestionOnTextOnly ==
  IF ~rendered.mounted
  THEN {"FakeSpan", "Suggestion", "Fetch", "Filter"}
  ELSE LET textChanged ==
             serviceSearchInputValue /= rendered.serviceSearchInputValue
       IN  (IF textChanged THEN {"FakeSpan", "Suggestion"} ELSE {})
           \cup (IF textChanged \/ "services" \in fresh
                 THEN {"Filter"} ELSE {})

\* Mutant of QueuedEffects: the query is missing from the filter effect's
\* dependencies.
QueuedEffectsFilterOnListOnly ==
  IF ~rendered.mounted
  THEN {"FakeSpan", "Suggestion", "Fetch", "Filter"}
  ELSE LET textChanged ==
             serviceSearchInputValue /= rendered.serviceSearchInputValue
       IN  (IF textChanged THEN {"FakeSpan"} ELSE {})
           \cup (IF textChanged \/ "filteredServices" \in fresh
                 THEN {"Suggestion"} ELSE {})
           \cup (IF "services" \in fresh THEN {"Filter"} ELSE {})

\* Mutant of QueuedEffects: the fetch effect has no dependency array, so it is
\* queued by every render.
QueuedEffectsFetchEveryRender ==
  IF ~rendered.mounted
  THEN {"FakeSpan", "Suggestion", "Fetch", "Filter"}
  ELSE LET textChanged ==
             serviceSearchInputValue /= rendered.serviceSearchInputValue
       IN  (IF textChanged THEN {"FakeSpan"} ELSE {})
           \cup (IF textChanged \/ "filteredServices" \in fresh
                 THEN {"Suggestion"} ELSE {})
           \cup {"Fetch"}
           \cup (IF textChanged \/ "services" \in fresh
                 THEN {"Filter"} ELSE {})

\* Mutant of QueuedEffects: textValue is missing from the dependencies of
\* FakeSpan's effect, so the mirror span is measured on mount only.
QueuedEffectsMeasureOnMountOnly ==
  IF ~rendered.mounted
  THEN {"FakeSpan", "Suggestion", "Fetch", "Filter"}
  ELSE LET textChanged ==
             serviceSearchInputValue /= rendered.serviceSearchInputValue
       IN  (IF textChanged \/ "filteredServices" \in fresh
            THEN {"Suggestion"} ELSE {})
           \cup (IF textChanged \/ "services" \in fresh
                 THEN {"Filter"} ELSE {})

\* Mutant of QueuedEffects: services is missing from the filter effect's
\* dependencies.
QueuedEffectsFilterOnTextOnly ==
  IF ~rendered.mounted
  THEN {"FakeSpan", "Suggestion", "Fetch", "Filter"}
  ELSE LET textChanged ==
             serviceSearchInputValue /= rendered.serviceSearchInputValue
       IN  (IF textChanged THEN {"FakeSpan"} ELSE {})
           \cup (IF textChanged \/ "filteredServices" \in fresh
                 THEN {"Suggestion"} ELSE {})
           \cup (IF textChanged THEN {"Filter"} ELSE {})

\* Mutant of QueuedEffects: filteredServices is among the filter effect's
\* dependencies, so the effect is queued again by its own result.
QueuedEffectsFilterOnOwnResult ==
  IF ~rendered.mounted
  THEN {"FakeSpan", "Suggestion", "Fetch", "Filter"}
  ELSE LET textChanged ==
             serviceSearchInputValue /= rendered.serviceSearchInputValue
       IN  (IF textChanged THEN {"FakeSpan"} ELSE {})
           \cup (IF textChanged \/ "filteredServices" \in fresh
                 THEN {"Suggestion"} ELSE {})
           \cup (IF textChanged \/ fresh /= {}
                 THEN {"Filter"} ELSE {})

\* The effects a render queues: all on mount, later those with a changed
\* dependency (the setters and the throttled callbacks never change).
QueuedEffects ==
  IF ~rendered.mounted
  THEN {"FakeSpan", "Suggestion", "Fetch", "Filter"}
  ELSE LET textChanged ==
             serviceSearchInputValue /= rendered.serviceSearchInputValue
       IN  (IF textChanged THEN {"FakeSpan"} ELSE {})
           \cup (IF textChanged \/ "filteredServices" \in fresh
                 THEN {"Suggestion"} ELSE {})
           \cup (IF textChanged \/ "services" \in fresh
                 THEN {"Filter"} ELSE {})

\* quiet after a step that is not the passing of time.
Settle ==
  quiet' = IF \/ serviceSearchInputValue' /= serviceSearchInputValue
              \/ filteredServices' /= filteredServices
           THEN 0
           ELSE quiet

\* ----------------------------------------------------------- the actions

\* Mutant of UseCallback: the function created by this render is used.
UseCallbackUnmemoized(memoized, created, isMount) == created

\* useCallback(fn, deps) where deps holds state setters only, or nothing: the
\* function created by the mount render is kept by every later render.
UseCallback(memoized, created, isMount) ==
  IF isMount THEN created ELSE memoized

\* SearchServiceProvider and its subtree render with the current state; each
\* render evaluates _.throttle(...) anew and passes the result to useCallback.
Render ==
  /\ effects = {}
  /\ NeedsRender
  /\ rendered' = [mounted |-> TRUE,
                  services |-> services,
                  filteredServices |-> filteredServices,
                  serviceSearchInputValue |-> serviceSearchInputValue,
                  fakeSpanDomWidth |-> fakeSpanDomWidth,
                  suggestionInputPlaceholder |-> suggestionInputPlaceholder,
                  inputWidth |-> InputWidth(fakeSpanDomWidth,
                                            suggestionInputPlaceholder)]
  /\ effects' = QueuedEffects
  /\ fresh' = {}
  /\ throttledSetFakeSpanDomWidth' =
       UseCallback(throttledSetFakeSpanDomWidth, NewThrottle(WaitFakeSpan),
                   ~rendered.mounted)
  /\ throttledSetServiceSearchInputValue' =
       UseCallback(throttledSetServiceSearchInputValue, NewThrottle(WaitInput),
                   ~rendered.mounted)
  /\ throttledSetSuggestionInputPlaceholder' =
       UseCallback(throttledSetSuggestionInputPlaceholder,
                   NewThrottle(WaitSuggestion), ~rendered.mounted)
  /\ last' = Plain("Render")
  /\ UNCHANGED <<requests, typed, services, filteredServices, serviceSearchInputValue,
                 fakeSpanDomWidth, suggestionInputPlaceholder, fetchState,
                 attempted, superseded, quiet>>

\* FakeSpan's effect: measure the mirror span, pass the width to its gate.
FakeSpanEffect ==
  /\ "FakeSpan" \in effects
  /\ LET newWidth == ComputedWidth(rendered.serviceSearchInputValue)
         r == Debounced(throttledSetFakeSpanDomWidth, newWidth, WaitFakeSpan)
     IN  /\ throttledSetFakeSpanDomWidth' = r.t
         /\ fakeSpanDomWidth' = IF r.invoked THEN newWidth ELSE fakeSpanDomWidth
         /\ superseded' = Superseding("fakeSpan", throttledSetFakeSpanDomWidth, r)
         /\ attempted' = [attempted EXCEPT !["fakeSpan"] = <<newWidth>>]
         /\ last' = Called("FakeSpanEffect", "fakeSpan",
                          throttledSetFakeSpanDomWidth, r)
  /\ effects' = effects \ {"FakeSpan"}
  /\ UNCHANGED <<requests, typed, services, filteredServices, serviceSearchInputValue,
                 suggestionInputPlaceholder, fresh, rendered, fetchState,
                 throttledSetServiceSearchInputValue,
                 throttledSetSuggestionInputPlaceholder, quiet>>

\* FeaturefulSearchInput's effect: derive the suggestion from the rendered
\* query and filtered list, pass it to its gate.
SuggestionEffect ==
  /\ "Suggestion" \in effects
  /\ "FakeSpan" \notin effects
  /\ LET newPlaceholder == NewPlaceholder(rendered.serviceSearchInputValue,
                                          rendered.filteredServices)
         r == Debounced(throttledSetSuggestionInputPlaceholder, newPlaceholder,
                        WaitSuggestion)
     IN  /\ throttledSetSuggestionInputPlaceholder' = r.t
         /\ suggestionInputPlaceholder' =
              IF r.invoked THEN newPlaceholder ELSE suggestionInputPlaceholder
         /\ superseded' = Superseding("suggestion", throttledSetSuggestionInputPlaceholder, r)
         /\ attempted' = [attempted EXCEPT !["suggestion"] = <<newPlaceholder>>]
         /\ last' = Called("SuggestionEffect", "suggestion",
                          throttledSetSuggestionInputPlaceholder, r)
  /\ effects' = effects \ {"Suggestion"}
  /\ UNCHANGED <<requests, typed, services, filteredServices, serviceSearchInputValue,
                 fakeSpanDomWidth, fresh, rendered, fetchState,
                 throttledSetFakeSpanDomWidth,
                 throttledSetServiceSearchInputValue, quiet>>

\* ServiceSearch's first effect: the request for the item list, on mount.
FetchEffect ==
  /\ "Fetch" \in effects
  /\ effects \cap {"FakeSpan", "Suggestion"} = {}
  /\ requests < MaxRequests
  /\ fetchState' = "inflight"
  /\ requests' = requests + 1
  /\ effects' = effects \ {"Fetch"}
  /\ last' = Plain("FetchEffect")
  /\ UNCHANGED <<typed, services, filteredServices, serviceSearchInputValue,
                 fakeSpanDomWidth, suggestionInputPlaceholder, fresh, rendered,
                 throttledSetFakeSpanDomWidth, throttledSetServiceSearchInputValue,
                 throttledSetSuggestionInputPlaceholder, attempted, superseded, quiet>>

\* Mutant of FilterEffect: the effect also clears the suggestion.
FilterEffectClearingSuggestion ==
  /\ effects = {"Filter"}
  /\ filteredServices' = FilterResults(rendered.services,
                                       rendered.serviceSearchInputValue)
  /\ suggestionInputPlaceholder' = <<>>
  /\ fresh' = fresh \cup {"filteredServices"}
  /\ effects' = {}
  /\ last' = Plain("FilterEffect")
  /\ UNCHANGED <<requests, typed, services, serviceSearchInputValue, fakeSpanDomWidth,
                 rendered, fetchState,
                 throttledSetFakeSpanDomWidth, throttledSetServiceSearchInputValue,
                 throttledSetSuggestionInputPlaceholder, attempted, superseded>>
  /\ Settle

\* ServiceSearch's second effect: filter the rendered list by the rendered query.
FilterEffect ==
  /\ effects = {"Filter"}
  /\ filteredServices' = FilterResults(rendered.services,
                                       rendered.serviceSearchInputValue)
  /\ fresh' = fresh \cup {"filteredServices"}
  /\ effects' = {}
  /\ last' = Plain("FilterEffect")
  /\ UNCHANGED <<requests, typed, services, serviceSearchInputValue, fakeSpanDomWidth,
                 suggestionInputPlaceholder, rendered, fetchState,
                 throttledSetFakeSpanDomWidth, throttledSetServiceSearchInputValue,
                 throttledSetSuggestionInputPlaceholder, attempted, superseded>>
  /\ Settle

\* The texts one edit of the displayed text can leave in the input: a key
\* appended, the last character deleted, everything deleted.
Edits(text) ==
  ({Append(text, c) : c \in IF Len(text) < MaxLen THEN Keys ELSE {}}
     \cup {SubSeq(text, 1, Len(text) - 1) : i \in IF Len(text) > 0 THEN {1} ELSE {}}
     \cup {<<>>})
  \ {text}

\* typed after an edit that turns the displayed text shown into value: an
\* appended character is recorded, up to MaxLen + 1 characters; any other
\* edit, or a longer text, ends the record.
Typing(shown, value) ==
  IF /\ typed.ok
     /\ Len(value) = Len(shown) + 1
     /\ Len(typed.text) <= MaxLen
  THEN [ok |-> TRUE, text |-> Append(typed.text, value[Len(value)])]
  ELSE [ok |-> FALSE, text |-> <<>>]

\* typed after time passes: the record ends once characters were typed and
\* the query gate has come to rest, with no call held and no timer armed.
Resting ==
  IF /\ typed.text /= <<>>
     /\ throttledSetServiceSearchInputValue.lastArgs = <<>>
     /\ throttledSetServiceSearchInputValue.timer = <<>>
  THEN [ok |-> FALSE, text |-> <<>>]
  ELSE typed

\* handleSearchInputChange: the input's text, which is the rendered value with
\* the user's edit, goes to the query gate.
HandleSearchInputChange ==
  /\ Idle
  /\ \E value \in Edits(rendered.serviceSearchInputValue) :
       LET r == Debounced(throttledSetServiceSearchInputValue, value, WaitInput)
       IN  /\ throttledSetServiceSearchInputValue' = r.t
           /\ serviceSearchInputValue' =
                IF r.invoked THEN value ELSE serviceSearchInputValue
           /\ superseded' = Superseding("input", throttledSetServiceSearchInputValue, r)
           /\ attempted' = [attempted EXCEPT !["input"] = <<value>>]
           /\ typed' = Typing(rendered.serviceSearchInputValue, value)
           /\ last' = Called("HandleSearchInputChange", "input",
                          throttledSetServiceSearchInputValue, r)
  /\ UNCHANGED <<requests, services, filteredServices, fakeSpanDomWidth,
                 suggestionInputPlaceholder, fresh, rendered, effects, fetchState,
                 throttledSetFakeSpanDomWidth,
                 throttledSetSuggestionInputPlaceholder>>
  /\ Settle

\* The timer of the width gate fires.
FakeSpanTimer ==
  /\ Idle
  /\ TimerDue(throttledSetFakeSpanDomWidth)
  /\ LET r == TimerExpired(throttledSetFakeSpanDomWidth, WaitFakeSpan)
     IN  /\ throttledSetFakeSpanDomWidth' = r.t
         /\ fakeSpanDomWidth' =
              IF r.invoked THEN throttledSetFakeSpanDomWidth.lastArgs[1]
              ELSE fakeSpanDomWidth
         /\ last' = Fired("FakeSpanTimer", "fakeSpan", r)
         /\ superseded' = superseded \ {"fakeSpan"}
  /\ UNCHANGED <<requests, typed, services, filteredServices, serviceSearchInputValue,
                 suggestionInputPlaceholder, fresh, rendered, effects, fetchState,
                 throttledSetServiceSearchInputValue,
                 throttledSetSuggestionInputPlaceholder, attempted, quiet>>

\* The timer of the query gate fires.
InputTimer ==
  /\ Idle
  /\ TimerDue(throttledSetServiceSearchInputValue)
  /\ LET r == TimerExpired(throttledSetServiceSearchInputValue, WaitInput)
     IN  /\ throttledSetServiceSearchInputValue' = r.t
         /\ serviceSearchInputValue' =
              IF r.invoked THEN throttledSetServiceSearchInputValue.lastArgs[1]
              ELSE serviceSearchInputValue
         /\ last' = Fired("InputTimer", "input", r)
         /\ superseded' = superseded \ {"input"}
  /\ UNCHANGED <<requests, typed, services, filteredServices, fakeSpanDomWidth,
                 suggestionInputPlaceholder, fresh, rendered, effects, fetchState,
                 throttledSetFakeSpanDomWidth,
                 throttledSetSuggestionInputPlaceholder, attempted>>
  /\ Settle

\* The timer of the suggestion gate fires.
SuggestionTimer ==
  /\ Idle
  /\ TimerDue(throttledSetSuggestionInputPlaceholder)
  /\ LET r == TimerExpired(throttledSetSuggestionInputPlaceholder, WaitSuggestion)
     IN  /\ throttledSetSuggestionInputPlaceholder' = r.t
         /\ suggestionInputPlaceholder' =
              IF r.invoked THEN throttledSetSuggestionInputPlaceholder.lastArgs[1]
              ELSE suggestionInputPlaceholder
         /\ last' = Fired("SuggestionTimer", "suggestion", r)
         /\ superseded' = superseded \ {"suggestion"}
  /\ UNCHANGED <<requests, typed, services, filteredServices, serviceSearchInputValue,
                 fakeSpanDomWidth, fresh, rendered, effects, fetchState,
                 throttledSetFakeSpanDomWidth,
                 throttledSetServiceSearchInputValue, attempted, quiet>>

\* The request resolves and its body parses: setServices(s).
FetchResolve ==
  /\ Idle
  /\ fetchState = "inflight"
  /\ \E s \in Catalogs :
       /\ services' = s
       /\ last' = Received("FetchResolve", s)
  /\ fresh' = fresh \cup {"services"}
  /\ fetchState' = "resolved"
  /\ UNCHANGED <<requests, typed, filteredServices, serviceSearchInputValue, fakeSpanDomWidth,
                 suggestionInputPlaceholder, rendered, effects,
                 throttledSetFakeSpanDomWidth, throttledSetServiceSearchInputValue,
                 throttledSetSuggestionInputPlaceholder, attempted, superseded, quiet>>

\* The request resolves with a non-success status and a body that parses:
\* res.ok and res.status are not looked at, so setServices(s) as for a success.
FetchResolveNotOk ==
  /\ Idle
  /\ fetchState = "inflight"
  /\ \E s \in ErrorBodies :
       /\ services' = s
       /\ last' = Received("FetchResolveNotOk", s)
  /\ fresh' = fresh \cup {"services"}
  /\ fetchState' = "resolved"
  /\ UNCHANGED <<requests, typed, filteredServices, serviceSearchInputValue,
                 fakeSpanDomWidth, suggestionInputPlaceholder, rendered, effects,
                 throttledSetFakeSpanDomWidth, throttledSetServiceSearchInputValue,
                 throttledSetSuggestionInputPlaceholder, attempted, superseded, quiet>>

\* The request rejects, or res.json() rejects on a body that does not parse:
\* the promise chain has no catch, nothing is written.
FetchReject ==
  /\ Idle
  /\ fetchState = "inflight"
  /\ fetchState' = "rejected"
  /\ last' = Plain("FetchReject")
  /\ UNCHANGED <<requests, typed, services, filteredServices, serviceSearchInputValue,
                 fakeSpanDomWidth, suggestionInputPlaceholder, fresh, rendered,
                 effects, throttledSetFakeSpanDomWidth,
                 throttledSetServiceSearchInputValue,
                 throttledSetSuggestionInputPlaceholder, attempted, superseded, quiet>>

\* Step milliseconds pass: nothing of React's is outstanding and no timer is due.
Tick ==
  /\ Idle
  /\ ~TimerDue(throttledSetFakeSpanDomWidth)
  /\ ~TimerDue(throttledSetServiceSearchInputValue)
  /\ ~TimerDue(throttledSetSuggestionInputPlaceholder)
  /\ throttledSetFakeSpanDomWidth' =
       Elapse(throttledSetFakeSpanDomWidth, WaitFakeSpan, Step)
  /\ throttledSetServiceSearchInputValue' =
       Elapse(throttledSetServiceSearchInputValue, WaitInput, Step)
  /\ throttledSetSuggestionInputPlaceholder' =
       Elapse(throttledSetSuggestionInputPlaceholder, WaitSuggestion, Step)
  /\ quiet' = Min(quiet + Step, WaitSuggestion)
  /\ typed' = Resting
  /\ last' = Plain("Tick")
  /\ UNCHANGED <<requests, services, filteredServices, serviceSearchInputValue,
                 fakeSpanDomWidth, suggestionInputPlaceholder, fresh, rendered,
                 effects, fetchState, attempted, superseded>>

Next ==
  \/ Render
  \/ FakeSpanEffect
  \/ SuggestionEffect
  \/ FetchEffect
  \/ FilterEffect
  \/ HandleSearchInputChange
  \/ FakeSpanTimer
  \/ InputTimer
  \/ SuggestionTimer
  \/ FetchResolve
  \/ FetchResolveNotOk
  \/ FetchReject
  \/ Tick

Spec == Init /\ [][Next]_vars

\* ------------------------------------------------------------ properties

\* text occurs in name at offset i (0-based), character by character.
OccursAt(name, text, i) ==
  /\ i + Len(text) <= Len(name)
  /\ \A k \in 1..Len(text) : name[i + k] = text[k]

Contains(name, text) == \E i \in 0..Len(name) : OccursAt(name, text, i)

StartsWith(name, text) == OccursAt(name, text, 0)

Blank(text) == \A i \in 1..Len(text) : text[i] \in Whitespace

\* kept is list restricted to the positions whose name contains text, in the
\* order of list.
KeepsExactlyMatches(kept, list, text) ==
  LET hits == {j \in 1..Len(list) : Contains(list[j].name, text)}
  IN  /\ \A i \in 1..Len(kept) : Contains(kept[i].name, text)
      /\ \A j \in hits : \E i \in 1..Len(kept) : kept[i] = list[j]
      /\ Len(kept) = Cardinality(hits)
      /\ \E at \in [1..Len(kept) -> 1..Len(list)] :
           /\ \A i \in 1..Len(kept) : kept[i] = list[at[i]]
           /\ \A i, k \in 1..Len(kept) : i < k => at[i] < at[k]

\* C1: when the filter effect has run with a non-blank query Q over the list
\* L, filteredServices is exactly the elements of L whose name contains Q as
\* a case-sensitive substring, in the order of L.
C1_FilterKeepsExactlyMatches ==
  (last.op = "FilterEffect" /\ ~Blank(rendered.serviceSearchInputValue))
    => KeepsExactlyMatches(filteredServices, rendered.services,
                           rendered.serviceSearchInputValue)

\* The filter effect ran with "b" over the four-item list: "Ba" (no lower-case
\* b) is left out from between the kept "ab" and "a b", "ba".
C1_Witness ==
  /\ last.op = "FilterEffect"
  /\ rendered.serviceSearchInputValue = <<"b">>
  /\ Len(rendered.services) = 4
  /\ Len(filteredServices) = 3

\* C2: when the filter effect has run with a query whose trimmed form is
\* empty, filteredServices is the empty sequence, whatever the list holds.
C2_BlankQueryGivesNoResults ==
  (last.op = "FilterEffect" /\ Blank(rendered.serviceSearchInputValue))
    => filteredServices = <<>>

\* The filter effect ran with " " over a list with a name that contains " ".
C2_Witness ==
  /\ last.op = "FilterEffect"
  /\ rendered.serviceSearchInputValue = <<" ">>
  /\ \E j \in 1..Len(rendered.services) :
       Contains(rendered.services[j].name, <<" ">>)
  /\ filteredServices = <<>>

\* F is the name of the first filtered item with the query as a non-empty
\* prefix, else "".
Suggested(text, list) ==
  IF Len(list) > 0 /\ text /= <<>> /\ StartsWith(list[1].name, text)
  THEN list[1].name
  ELSE <<>>

\* C3: in every run of the suggestion effect, with Q the query and F the name
\* of the first filtered item it reads ("" when there is none), the value it
\* computes is F when F starts with Q and Q is non-empty, and "" otherwise.
C3_SuggestionIsFirstNameIffNonEmptyPrefix ==
  last.op = "SuggestionEffect"
    => attempted["suggestion"] =
         <<Suggested(rendered.serviceSearchInputValue, rendered.filteredServices)>>

\* The width the claim of C4 gives the editable input.
ClaimedInputWidth(width, placeholder) ==
  IF width = Percent100 \/ placeholder = <<>> THEN Percent100 ELSE width

\* C4 as claimed: in every render the input's width is "100%" when
\* MeasuredWidth is "100%" or SuggestionText is "", and MeasuredWidth in
\* every other state, "0px" with a suggestion included.
C4_WidthIsMeasuredUnlessUnmeasuredOrNoSuggestion ==
  rendered.mounted
    => rendered.inputWidth =
         ClaimedInputWidth(rendered.fakeSpanDomWidth,
                           rendered.suggestionInputPlaceholder)

\* C4 as amended: in every render the input's width is "100%" when
\* MeasuredWidth is "100%" or "0px" or SuggestionText is "", and
\* MeasuredWidth in every other state.
C4_WidthIsMeasuredUnlessZeroOrNoSuggestion ==
  rendered.mounted
    => rendered.inputWidth =
         IF \/ rendered.fakeSpanDomWidth \in {Percent100, Px(0)}
            \/ rendered.suggestionInputPlaceholder = <<>>
         THEN Percent100
         ELSE rendered.fakeSpanDomWidth

\* A render with a suggestion beside an empty, measured query: the input
\* fills the container.
C4_Witness ==
  /\ rendered.mounted
  /\ rendered.fakeSpanDomWidth = Px(0)
  /\ rendered.suggestionInputPlaceholder /= <<>>
  /\ rendered.inputWidth = Percent100

\* SuggestionText is "" or the name of the first filtered item, with the
\* query as a prefix.
SuggestionFitsQuery ==
  \/ suggestionInputPlaceholder = <<>>
  \/ /\ StartsWith(suggestionInputPlaceholder, serviceSearchInputValue)
     /\ Len(filteredServices) > 0
     /\ suggestionInputPlaceholder = filteredServices[1].name

\* C5 as claimed: in every reachable state SuggestionText is "" or has
\* QueryText as a prefix and is the name of the first filtered item, also
\* while a throttled commit of the suggestion is held.
C5_SuggestionAlwaysFitsQuery == SuggestionFitsQuery

\* C5 as amended: the same in every state in which no render or effect is
\* outstanding and the suggestion gate holds no call.
C5_SuggestionFitsQueryAtRest ==
  (Idle /\ throttledSetSuggestionInputPlaceholder.lastArgs = <<>>)
    => SuggestionFitsQuery

\* At rest with a suggestion shown, its trailing write done.
C5_Witness ==
  /\ Idle
  /\ throttledSetSuggestionInputPlaceholder.lastArgs = <<>>
  /\ last.op = "SuggestionTimer"
  /\ "suggestion" \in last.wrote
  /\ suggestionInputPlaceholder /= <<>>

\* filteredServices is within services, every element contains the query,
\* and it is empty when the query is blank.
FilteredFitsQuery ==
  /\ \A i \in 1..Len(filteredServices) :
       /\ \E j \in 1..Len(services) : services[j] = filteredServices[i]
       /\ Contains(filteredServices[i].name, serviceSearchInputValue)
  /\ Blank(serviceSearchInputValue) => filteredServices = <<>>

\* C6 as claimed: in every reachable state, those between a write of
\* QueryText or allItems and the filter effect's run included,
\* filteredItems is a subset of allItems whose elements contain QueryText,
\* and empty when QueryText is blank.
C6_FilteredAlwaysFitsQuery == FilteredFitsQuery

\* The filter effect has yet to run for the current query or list.
FilterOutstanding ==
  \/ ~rendered.mounted
  \/ serviceSearchInputValue /= rendered.serviceSearchInputValue
  \/ "services" \in fresh
  \/ "Filter" \in effects

\* C6 as amended: the same in every state but those between a write of
\* QueryText or allItems and the filter effect's run for it.
C6_FilteredFitsQueryOnceFiltered == ~FilterOutstanding => FilteredFitsQuery

\* The filter effect just wrote a non-empty result.
C6_Witness ==
  /\ ~FilterOutstanding
  /\ last.op = "FilterEffect"
  /\ Len(filteredServices) > 0

\* C7: in every run of the suggestion effect with QueryText = "" the first
\* item name it reads is "" and the value it passes to the gate is "", and
\* no step writes a non-empty SuggestionText while QueryText is "".
C7_NoSuggestionForEmptyQuery ==
  /\ (last.op = "SuggestionEffect" /\ rendered.serviceSearchInputValue = <<>>)
       => /\ FirstSearchItemText(rendered.filteredServices) = <<>>
          /\ attempted["suggestion"] = << <<>> >>
  /\ ("suggestion" \in last.wrote /\ serviceSearchInputValue = <<>>)
       => suggestionInputPlaceholder = <<>>

GateOf(g) ==
  CASE g = "fakeSpan" -> throttledSetFakeSpanDomWidth
    [] g = "input" -> throttledSetServiceSearchInputValue
    [] g = "suggestion" -> throttledSetSuggestionInputPlaceholder

\* The state field behind gate g, as a one-element sequence.
FieldOf(g) ==
  CASE g = "fakeSpan" -> <<fakeSpanDomWidth>>
    [] g = "input" -> <<serviceSearchInputValue>>
    [] g = "suggestion" -> <<suggestionInputPlaceholder>>

\* C8: for each of the three gates, a write to the setter behind it comes no
\* sooner after the gate's previous write than the gate's interval.
C8_WritesAtLeastAnIntervalApart ==
  [][\A g \in last'.wrote : GateOf(g).sinceInvoke >= Wait(g)]_vars

\* C9: for each gate, a write to its setter writes the argument of the latest
\* call of the gate (a call replaced while held is never written), and a gate
\* that has been called and has no timer running has written the argument of
\* its latest call.
C9_LatestCallIsDelivered ==
  \A g \in Gates :
    /\ g \in last.wrote => FieldOf(g) = attempted[g]
    /\ (attempted[g] /= <<>> /\ GateOf(g).timer = <<>>) => FieldOf(g) = attempted[g]

\* The timer of the query gate wrote the last of several held calls.
C9_Witness ==
  /\ last.op = "InputTimer"
  /\ "input" \in last.wrote
  /\ "input" \in last.dropped
  /\ <<serviceSearchInputValue>> = attempted["input"]

\* C10: once 500 ms have passed since QueryText or filteredItems last
\* changed, and the suggestion timer due by then has run, SuggestionText is
\* the name of the first filtered item if QueryText is a prefix of it and ""
\* otherwise, and stays so until one of the two changes.
C10_SuggestionCurrentWithinInterval ==
  (quiet >= WaitSuggestion /\ ~TimerDue(throttledSetSuggestionInputPlaceholder))
    => suggestionInputPlaceholder =
         IF /\ Len(filteredServices) > 0
            /\ StartsWith(filteredServices[1].name, serviceSearchInputValue)
         THEN filteredServices[1].name
         ELSE <<>>

\* 500 ms after the last change the suggestion written by the gate's timer
\* is shown.
C10_Witness ==
  /\ quiet >= WaitSuggestion
  /\ last.op = "SuggestionTimer"
  /\ "suggestion" \in last.wrote
  /\ suggestionInputPlaceholder /= <<>>
  /\ serviceSearchInputValue /= <<>>

\* C11: while the item list is empty (never fetched, or fetched as the empty
\* list), whatever is typed, filteredItems is empty and SuggestionText is "".
C11_EmptyListGivesNothing ==
  services = <<>> =>
    /\ filteredServices = <<>>
    /\ suggestionInputPlaceholder = <<>>

\* The empty list was fetched and the suggestion effect has run for a typed
\* query.
C11_Witness ==
  /\ fetchState = "resolved"
  /\ services = <<>>
  /\ last.op = "SuggestionEffect"
  /\ "suggestion" \in last.wrote
  /\ rendered.serviceSearchInputValue /= <<>>

\* C12: over the widget's lifetime exactly one fetch request is issued, by
\* the mount's effects, and a successful response replaces allItems by the
\* list it carries.
C12_OneRequestReplacingTheList ==
  /\ requests <= 1
  /\ (requests = 0) = (fetchState = "idle")
  /\ (rendered.mounted /\ "Fetch" \notin effects) => requests = 1
  /\ last.op = "FetchResolve" => services = last.body

\* A non-empty list arrives after the widget has re-rendered for a typed query.
C12_Witness ==
  /\ last.op = "FetchResolve"
  /\ Len(services) > 0
  /\ rendered.serviceSearchInputValue /= <<>>
  /\ requests = 1

\* C13: a fetch request that is rejected or fails (network rejection, a
\* response with a non-success status, a body that does not parse) writes
\* nothing, so that allItems is still the rendered list, and is not retried.
C13_FailedRequestLeavesListAlone ==
  (fetchState = "rejected" \/ last.op \in {"FetchReject", "FetchResolveNotOk"})
    => /\ services = rendered.services
       /\ fresh = {}
       /\ requests = 1

\* C14: the width gate holds at most one pending update at any time, and once
\* QueryText has gone unwritten for one 120 ms width-gate interval, and the
\* width timer due by then has run, MeasuredWidth is the width of the mirror
\* span for the current QueryText.
C14_WidthCurrentWithinInterval ==
  /\ Len(throttledSetFakeSpanDomWidth.lastArgs) <= 1
  /\ ( /\ rendered.mounted
       /\ "FakeSpan" \notin effects
       /\ throttledSetServiceSearchInputValue.sinceInvoke >= WaitFakeSpan
       /\ ~TimerDue(throttledSetFakeSpanDomWidth) )
     => fakeSpanDomWidth = Px(Len(serviceSearchInputValue) * CharPx)

\* The width timer writes the width of a typed text that the gate had held.
C14_Witness ==
  /\ last.op = "FakeSpanTimer"
  /\ "fakeSpan" \in last.wrote
  /\ serviceSearchInputValue /= <<>>
  /\ fakeSpanDomWidth = Px(Len(serviceSearchInputValue) * CharPx)

\* C15: wherever among the keystrokes the fetch completes, once it has
\* resolved and React has nothing outstanding, filteredItems is the filter of
\* the fetched allItems by the current QueryText: nothing for a blank query,
\* otherwise exactly the items whose name contains it, in list order.
C15_FilteredIsFilterOfFetchedList ==
  (fetchState = "resolved" /\ Idle) =>
    IF Blank(serviceSearchInputValue)
    THEN filteredServices = <<>>
    ELSE KeepsExactlyMatches(filteredServices, services, serviceSearchInputValue)

\* The filter effect runs because the list arrived, for a query whose last
\* write was at least one Step earlier, and finds matches.
C15_Witness ==
  /\ fetchState = "resolved"
  /\ last.op = "FilterEffect"
  /\ throttledSetServiceSearchInputValue.sinceInvoke >= Step
  /\ serviceSearchInputValue /= <<>>
  /\ Len(filteredServices) > 0
  /\ Len(filteredServices) < Len(services)

\* C16: in every run of the suggestion deriver's effect, the filteredItems it
\* reads is the filter of the current allItems by the current QueryText.
C16_DeriverReadsRecomputedList ==
  last.op = "SuggestionEffect" =>
    IF Blank(rendered.serviceSearchInputValue)
    THEN rendered.filteredServices = <<>>
    ELSE KeepsExactlyMatches(rendered.filteredServices, rendered.services,
                             rendered.serviceSearchInputValue)

\* The state fields a step writes: a string field that changed, an array
\* field that changed or was given a new array.
Written ==
  {f \in {"services", "filteredServices"} :
     f \in fresh' \ fresh}
  \cup (IF services' /= services THEN {"services"} ELSE {})
  \cup (IF filteredServices' /= filteredServices
        THEN {"filteredServices"} ELSE {})
  \cup (IF serviceSearchInputValue' /= serviceSearchInputValue
        THEN {"serviceSearchInputValue"} ELSE {})
  \cup (IF fakeSpanDomWidth' /= fakeSpanDomWidth
        THEN {"fakeSpanDomWidth"} ELSE {})
  \cup (IF suggestionInputPlaceholder' /= suggestionInputPlaceholder
        THEN {"suggestionInputPlaceholder"} ELSE {})

\* C17: every step writes at most one state field, and each field has one
\* writer: allItems the fetch completion, filteredItems the filter effect,
\* QueryText the query gate, MeasuredWidth the width gate, SuggestionText
\* the suggestion gate.
C17_SingleWriterPerField ==
  [][ /\ Cardinality(Written) <= 1
      /\ "services" \in Written
            => last'.op \in {"FetchResolve", "FetchResolveNotOk"}
      /\ "filteredServices" \in Written => last'.op = "FilterEffect"
      /\ "serviceSearchInputValue" \in Written
            => /\ last'.op \in {"HandleSearchInputChange", "InputTimer"}
               /\ last'.wrote = {"input"}
      /\ "fakeSpanDomWidth" \in Written
            => /\ last'.op \in {"FakeSpanEffect", "FakeSpanTimer"}
               /\ last'.wrote = {"fakeSpan"}
      /\ "suggestionInputPlaceholder" \in Written
            => /\ last'.op \in {"SuggestionEffect", "SuggestionTimer"}
               /\ last'.wrote = {"suggestion"}
    ]_vars

\* Every field holds a value other than its initial one, the query gate's
\* timer having just written QueryText.
C17_Witness ==
  /\ last.op = "InputTimer"
  /\ last.wrote = {"input"}
  /\ serviceSearchInputValue /= rendered.serviceSearchInputValue
  /\ services /= <<>>
  /\ filteredServices /= <<>>
  /\ suggestionInputPlaceholder /= <<>>
  /\ fakeSpanDomWidth \notin {Percent100, Px(0)}

\* C18: each gate is one throttle for the widget's lifetime: a re-render
\* leaves every gate as it was, with its held call and its timer, so a call
\* made after any number of re-renders meets the same throttle and a held
\* call always has a timer that will deliver it.
C18_RenderKeepsEveryGate ==
  [][ /\ (rendered.mounted /\ last'.op = "Render") =>
            /\ throttledSetFakeSpanDomWidth' = throttledSetFakeSpanDomWidth
            /\ throttledSetServiceSearchInputValue' =
                 throttledSetServiceSearchInputValue
            /\ throttledSetSuggestionInputPlaceholder' =
                 throttledSetSuggestionInputPlaceholder
      /\ \A g \in Gates : GateOf(g).lastArgs /= <<>> => GateOf(g).timer /= <<>>
    ]_vars

\* A re-render has happened while the query gate and the suggestion gate
\* each held a call.
C18_Witness ==
  /\ last.op = "Render"
  /\ throttledSetServiceSearchInputValue.lastArgs /= <<>>
  /\ throttledSetSuggestionInputPlaceholder.lastArgs /= <<>>
  /\ throttledSetServiceSearchInputValue.timer /= <<>>

\* C19: no typed character is lost: when the user has only appended
\* characters, several of them inside one 120 ms window included, then once
\* the query gate holds nothing and React has nothing outstanding, QueryText
\* is the concatenation of all typed characters in order.
C19_NoTypedCharacterIsLost ==
  ( /\ typed.ok
    /\ Idle
    /\ throttledSetServiceSearchInputValue.lastArgs = <<>> )
  => serviceSearchInputValue = typed.text

\* The work outstanding in a state, as a number that is 0 exactly when React
\* has nothing to do and no gate has a timer armed.  Heavier terms stand for
\* work that can cause the lighter: a query timer a query write, a query write
\* all three effects, the filter effect a run of the suggestion effect, an
\* effect a gate's timer and a render, a render at most four effects.
Rank ==
  LET textChanged ==
        ~rendered.mounted
          \/ serviceSearchInputValue /= rendered.serviceSearchInputValue
      b(p) == IF p THEN 1 ELSE 0
  IN  512 * b(throttledSetServiceSearchInputValue.timer /= <<>>)
        + 128 * b(textChanged \/ "services" \in fresh \/ "Filter" \in effects)
        + 64 * b(textChanged \/ "filteredServices" \in fresh
                   \/ "Suggestion" \in effects)
        + 32 * b(textChanged \/ "FakeSpan" \in effects)
        + 12 * b(throttledSetSuggestionInputPlaceholder.timer /= <<>>)
        + 12 * b(throttledSetFakeSpanDomWidth.timer /= <<>>)
        + 5 * b(NeedsRender)
        + Cardinality(effects)

\* Milliseconds until every armed timer is due.
TimeLeft ==
  LET left(t) == IF t.timer = <<>> THEN 0 ELSE t.timer[1]
  IN  left(throttledSetFakeSpanDomWidth)
        + left(throttledSetServiceSearchInputValue)
        + left(throttledSetSuggestionInputPlaceholder)

\* C20: once the user stops typing and the fetch has settled the chain of
\* renders, effects and timers ends: every step that is not a keystroke, an
\* outcome of the fetch or the passing of time lowers Rank, which is never
\* negative; time passing with work outstanding brings the armed timers
\* nearer; and at Rank 0 nothing but those three can happen.
C20_RecomputationTerminates ==
  [][ LET before == Rank
          after == Rank'
      IN  /\ before >= 0
          /\ CASE last'.op = "Tick" ->
                     before > 0 =>
                       (after = before /\ TimeLeft' < TimeLeft /\ TimeLeft' >= 0)
                [] last'.op \in {"HandleSearchInputChange", "FetchResolve",
                                 "FetchResolveNotOk", "FetchReject"} ->
                     TRUE
                [] OTHER ->
                     before > 0 /\ after < before
    ]_vars

\* At rest after typing and the fetch: a query with matches and a suggestion
\* on screen, nothing outstanding and no timer armed.
C20_Witness ==
  /\ Rank = 0
  /\ fetchState = "resolved"
  /\ serviceSearchInputValue /= <<>>
  /\ filteredServices /= <<>>
  /\ suggestionInputPlaceholder /= <<>>

====
